---- MODULE Spec2Model ----
(***************************************************************************)
(* The session engine of mc-ws: Server (src/server.rs), its EventLoop      *)
(* task, and the EventListener handles (src/event/mod.rs).                 *)
(*                                                                         *)
(* One handler task owns the Server (every Server method takes &mut self,  *)
(* so at most one Server operation is in progress at a time; an operation  *)
(* can be abandoned at any of its await points).  The EventLoop runs as a  *)
(* separate tokio task, the EventListener handles live in further tasks,   *)
(* and the remote peer sends whatever it likes.                            *)
(***************************************************************************)
EXTENDS Integers, Sequences, FiniteSets, TLC

\* ---------------------------------------------------------------- bounds
MaxOps == 2          \* Server operations the handler starts in one run
MaxEvents == 2       \* events the peer publishes in one run
MaxLiveEvents == 1   \* the same, in the runs checked for liveness (FairSpec)
ChannelSize == 3     \* capacity of the two mpsc channels (CHANNEL_SIZE, scaled down)

\* ------------------------------------------------------------- constants
Permits == 100       \* Semaphore::new(100)

Ids == {1, 2}                             \* request ids a caller may put in a request
Listeners == {1, 2}                       \* EventListener handles alive at a time
EventNames == {"PlayerMessage", "Other"}  \* EventType values the peer may send

\* ------------------------------------------------------------------ state
VARIABLES
    hpc,            \* position of the handler task inside a Server method
    ops,            \* number of Server operations started (the current one is op `ops`)
    cur,            \* request id of the command in progress (0: none)
    typed,          \* the command in progress was started by send_command
    result,         \* what the last finished operation returned
    runResult,      \* what Server::run returned
    joined,         \* the JoinHandle has handed out the task's output
    permits,        \* available permits of command_semaphore
    idUse,          \* history: how many commands carried each request id
    packetQ,        \* mpsc channel packet_sender -> packet_receiver
    commandQ,       \* mpsc channel command_sender -> command_receiver
    sent_commands,  \* EventLoop.sent_commands
    rxSlot,         \* the oneshot channel of the command in progress
    loopPc,         \* position of the EventLoop task
    loopErr,        \* the Err the event_loop future returned
    message,        \* the message stream.try_next() yielded, while it is handled
    event_value,    \* value held by the watch channel
    event_version,  \* version of the watch channel
    published,      \* history: names of the events sent on the watch channel
    serverSeen,     \* version seen by Server.event_receiver
    ref_count,      \* subscribed_events[PlayerMessage] (0 also when absent)
    lst,            \* per listener handle: "none", "live", "unsub", "gone"
    lseen,          \* per listener handle: version seen by its receiver
    lgot,           \* per listener handle: versions of the events recv returned
    lborn,          \* history, per listener handle: the watch version at its creation
    lexh,           \* per listener handle: its last recv returned StreamExhausted
    wireReqs,       \* history: request ids written to the transport
    wireSub,        \* last Subscribe/Unsubscribe written to the transport
    stale,          \* history: packets enqueued before close() that are still queued
    late            \* history: packets enqueued after close() and written

vars == << hpc, ops, cur, typed, result, permits, idUse, packetQ, commandQ,
           sent_commands, rxSlot, loopPc, loopErr, message, event_value,
           event_version, published, serverSeen, ref_count, lst, lseen, lgot, lborn,
           lexh, wireReqs, wireSub, stale, late, runResult, joined >>

handlerVars == << hpc, ops, cur, typed, result, permits, idUse, rxSlot, serverSeen,
                 runResult, joined >>
listenerVars == << lst, lseen, lgot, lborn, lexh >>
busVars == << event_value, event_version, published >>
wireVars == << wireReqs, wireSub, stale, late >>

\* ----------------------------------------------------------------- errors
Err(k) == [kind |-> k, status_code |-> 0, status_message |-> "", request_id |-> 0]
NoError == Err("None")
MinecraftError(code, msg) ==
    [kind |-> "MinecraftError", status_code |-> code, status_message |-> msg,
     request_id |-> 0]
UnexpectedPacket(packet) ==
    [kind |-> "UnexpectedPacket", status_code |-> 0, status_message |-> "",
     request_id |-> packet.request_id]

\* ---------------------------------------------------------------- packets
CommandRequest(id) == [type |-> "CommandRequest", request_id |-> id]
SubscribeP == [type |-> "Subscribe", request_id |-> 0]
UnsubscribeP == [type |-> "Unsubscribe", request_id |-> 0]

\* What the transport can yield to stream.try_next().  The kind of a text
\* message is its header's messagePurpose, written as the name of the Packet
\* variant of that purpose ("CommandResponse" is "commandResponse"; "Unknown" is
\* any other string); "Binary" is a message that is not Message::Text.
Statuses == { << 0, "" >>, << 3, "c" >> }   \* statusCode, statusMessage of a response
Responses == { [kind |-> "CommandResponse", request_id |-> i, event_name |-> "",
                status_code |-> st[1], status_message |-> st[2]] :
               i \in Ids, st \in Statuses }
Events == { [kind |-> "Event", request_id |-> 0, event_name |-> n,
             status_code |-> 0, status_message |-> ""] : n \in EventNames }
ErrorPacket(c, m) == [kind |-> "Error", request_id |-> 0, event_name |-> "",
                      status_code |-> c, status_message |-> m]
ErrorPackets == {ErrorPacket(1, "a"), ErrorPacket(2, "b")}
EndOfStream == [kind |-> "EndOfStream", request_id |-> 0, event_name |-> "",
                status_code |-> 0, status_message |-> ""]
Blank(k) == [kind |-> k, request_id |-> 0, event_name |-> "",
             status_code |-> 0, status_message |-> ""]
OtherPurposes == {"CommandRequest", "Subscribe", "Unsubscribe", "Unknown"}
Others == { Blank(k) : k \in OtherPurposes }
Binary == Blank("Binary")
Inbound == Responses \cup Events \cup ErrorPackets \cup Others
           \cup {Binary, EndOfStream}
NoMessage == [kind |-> "None", request_id |-> 0, event_name |-> "",
              status_code |-> 0, status_message |-> ""]

\* ---------------------------------------------------------------- decoding
\* A serde error of the packet deserializers.
DecodeError == Blank("DecodeError")

\* Mutant: the typed decoder does not look at header.messagePurpose.
deserialize_map_unchecked(purpose, m) == m

\* deserialize_packet!($type; $purpose, ..): DeserializablePacket::deserialize_map
\* of the packet type of `purpose`; header.messagePurpose must equal $purpose.
deserialize_map(purpose, m) == IF m.kind = purpose THEN m ELSE DecodeError

\* The packet types that have a deserializer.
Deserializable == {"CommandResponse", "Error", "Event"}

\* PacketVisitor::visit_map: the Packet union dispatches on header.messagePurpose.
visit_map(m) ==
    CASE m.kind = "CommandResponse" -> deserialize_map("CommandResponse", m)
      [] m.kind = "Error" -> deserialize_map("Error", m)
      [] m.kind = "Event" -> deserialize_map("Event", m)
      [] OTHER -> DecodeError

\* Mutant: every message is decoded as if it were text.
process_message_as_text(m) == visit_map(m)

\* EventLoop::process_message: Ok(Some(packet)) for a text message that
\* decodes, Ok(None) (NoMessage) for a message that is not text, and the serde
\* error otherwise.
process_message(m) == IF m.kind = "Binary" THEN NoMessage ELSE visit_map(m)

\* ---------------------------------------------------------------- results
NoResult == [set |-> FALSE, ok |-> FALSE, err |-> NoError, request_id |-> 0,
             status_code |-> 0, status_message |-> ""]
OkResult(id) == [set |-> TRUE, ok |-> TRUE, err |-> NoError, request_id |-> id,
                 status_code |-> 0, status_message |-> ""]
ErrResult(e) == [set |-> TRUE, ok |-> FALSE, err |-> e, request_id |-> 0,
                 status_code |-> 0, status_message |-> ""]
\* Ok(response): the CommandResponsePacket a oneshot channel delivered.
OkResponse(response) ==
    [set |-> TRUE, ok |-> TRUE, err |-> NoError, request_id |-> response.request_id,
     status_code |-> response.status_code, status_message |-> response.status_message]
\* The oneshot channel of a command: empty, or holding the response sent on it.
Empty == [full |-> FALSE, request_id |-> 0, status_code |-> 0, status_message |-> ""]
Full(response) ==
    [full |-> TRUE, request_id |-> response.request_id,
     status_code |-> response.status_code, status_message |-> response.status_message]

DefaultEvent == [event_name |-> "PlayerMessage", serial |-> 0]

\* MultiResult<()>: Ok(()) or a MultiError with the errors it holds.
NoRun == [kind |-> "None", loop_error |-> NoError, handler_error |-> NoError]
MultiResult(k, le, he) == [kind |-> k, loop_error |-> le, handler_error |-> he]

\* ------------------------------------------------------------------- Init
Init ==
    /\ hpc = "idle"
    /\ ops = 0
    /\ cur = 0
    /\ typed = FALSE
    /\ result = NoResult
    /\ permits = Permits
    /\ idUse = [i \in Ids |-> 0]
    /\ packetQ = << >>
    /\ commandQ = << >>
    /\ sent_commands = << >>
    /\ rxSlot = Empty
    /\ loopPc = "cmd"
    /\ loopErr = NoError
    /\ message = NoMessage
    /\ event_value = DefaultEvent
    /\ event_version = 0
    /\ published = << >>
    /\ serverSeen = 0
    /\ ref_count = 0
    /\ lst = [l \in Listeners |-> "none"]
    /\ lseen = [l \in Listeners |-> 0]
    /\ lgot = [l \in Listeners |-> << >>]
    /\ lborn = [l \in Listeners |-> 0]
    /\ lexh = [l \in Listeners |-> FALSE]
    /\ wireReqs = {}
    /\ wireSub = "none"
    /\ stale = 0
    /\ late = 0
    /\ runResult = NoRun
    /\ joined = FALSE


\* ------------------------------------------------------- channel liveness
\* JoinHandle::is_finished: the task's future has completed and was dropped.
is_finished == loopPc = "finished"
\* EventLoop::drop closed command_receiver and packet_receiver.
ReceiversClosed == loopPc \in {"closing", "dropped", "finished"}
\* The EventLoop's fields (event_sender, sent_commands, the receivers) are dropped.
FieldsDropped == loopPc \in {"dropped", "finished"}

\* The Server value is gone: Server::run dropped it, close() consumed it, or
\* the handler task panicked and unwound.
ServerDropped == hpc \in {"done", "closed", "panicked"}

\* close() called loop_handle.abort(): the task is cancelled when it is not
\* being polled, or when the poll that is under way returns Pending.
abort_requested == hpc = "closed"

\* The handles that hold a clone of packet_sender and of the watch receiver.
Handles_alive == {l \in Listeners : lst[l] \in {"live", "unsub"}}

\* Mutant: the registration channel never reports that its sender is gone.
command_sender_never_dropped == TRUE

\* command_sender lives in the Server only.
command_sender_alive == ~ServerDropped

\* packet_sender and event_receiver live in the Server and in every listener.
packet_sender_alive == ~ServerDropped \/ Handles_alive # {}
event_receiver_alive == ~ServerDropped \/ Handles_alive # {}

\* --------------------------------------------------------------- EventLoop
\* sent_commands.iter().position(|(id, _)| id == &response.request_id); 0 is None.
RECURSIVE PositionFrom(_, _, _)
PositionFrom(cmds, id, k) ==
    IF k > Len(cmds) THEN 0
    ELSE IF cmds[k].id = id THEN k
    ELSE PositionFrom(cmds, id, k + 1)

\* Mutant: the lookup takes the first record, whatever its request id.
PositionAny(cmds, id) == IF Len(cmds) > 0 THEN 1 ELSE 0

Position(cmds, id) == PositionFrom(cmds, id, 1)

\* Vec::swap_remove(k): the last element takes the place of element k.
swap_remove(cmds, k) ==
    LET n == Len(cmds) IN
    [j \in 1 .. (n - 1) |-> IF j = k THEN cmds[n] ELSE cmds[j]]

\* oneshot::Sender::send succeeds iff the Receiver has not been dropped: the
\* receiver of op s lives while that call is suspended on rx.await.
ReceiverAlive(s) == s = ops /\ hpc = "cmd_await"

\* The event_loop future returns Err(e): EventLoop::drop runs and closes both
\* receivers (then waits for the close handshake for at most 10 ms).
Exit(e) ==
    /\ loopPc' = "closing"
    /\ loopErr' = e

\* Mutant: the value is replaced but the version stays.
SendEventUnversioned(packet) ==
    /\ event_value' = [event_name |-> packet.event_name, serial |-> event_version + 1]
    /\ event_version' = event_version
    /\ published' = Append(published, packet.event_name)

\* Packet::Event(event) => self.event_sender.send(event)
SendEvent(packet) ==
    /\ event_value' = [event_name |-> packet.event_name, serial |-> event_version + 1]
    /\ event_version' = event_version + 1
    /\ published' = Append(published, packet.event_name)

\* Packet::CommandResponse(response): what the lookup and the delivery yield.
\* "unknown": no record; "sent": delivered; "dropped": the receiver is gone.
Delivery(cmds, id) ==
    LET k == Position(cmds, id) IN
    IF k = 0 THEN "unknown"
    ELSE IF ReceiverAlive(cmds[k].sink) THEN "sent"
    ELSE "dropped"

\* Mutant: a delivery to a dropped receiver is not an error.
ResponseResultLenient(packet, outcome) ==
    IF outcome = "unknown" THEN UnexpectedPacket(packet) ELSE NoError

\* The Result of handle_packet for a CommandResponse.
ResponseResult(packet, outcome) ==
    IF outcome = "unknown" THEN UnexpectedPacket(packet)
    ELSE IF outcome = "sent" THEN NoError
    ELSE Err("CommandHandlingError")

\* Mutant: the status code of the Error packet is lost.
ErrorResultNoCode(packet) == MinecraftError(0, packet.status_message)

\* The Result of handle_packet for an Error packet.
ErrorResult(packet) == MinecraftError(packet.status_code, packet.status_message)

handle_packet(packet) ==
    CASE packet.kind = "Event" ->
            IF event_receiver_alive
            THEN /\ SendEvent(packet)
                 /\ loopPc' = "cmd"
                 /\ UNCHANGED << sent_commands, rxSlot, loopErr >>
            ELSE /\ Exit(Err("EventBroadcastFailed"))
                 /\ UNCHANGED << sent_commands, rxSlot, busVars >>
      [] packet.kind = "Error" ->
            /\ Exit(ErrorResult(packet))
            /\ UNCHANGED << sent_commands, rxSlot, busVars >>
      [] packet.kind = "CommandResponse" ->
            LET outcome == Delivery(sent_commands, packet.request_id)
                k == Position(sent_commands, packet.request_id)
                res == ResponseResult(packet, outcome)
            IN  /\ sent_commands' =
                      IF outcome = "unknown" THEN sent_commands
                      ELSE swap_remove(sent_commands, k)
                /\ rxSlot' = IF outcome = "sent" THEN Full(packet) ELSE rxSlot
                /\ IF res = NoError
                   THEN loopPc' = "cmd" /\ UNCHANGED loopErr
                   ELSE Exit(res)
                /\ UNCHANGED busVars
      [] OTHER ->
            /\ Exit(UnexpectedPacket(packet))
            /\ UNCHANGED << sent_commands, rxSlot, busVars >>

\* Mutant: the registration branch is never found ready.
registration_never_ready == FALSE

\* self.command_receiver.next() is ready with a registration.
registration_ready == commandQ # << >>

\* select! branch 1, ready: self.sent_commands.push(command)
LoopRegister ==
    /\ loopPc = "cmd"
    /\ registration_ready
    /\ sent_commands' = Append(sent_commands, Head(commandQ))
    /\ commandQ' = Tail(commandQ)
    /\ UNCHANGED << hpc, ops, cur, typed, result, permits, idUse, packetQ, rxSlot, loopPc,
                    loopErr, message, busVars, serverSeen, ref_count, listenerVars,
                    wireVars >>
    /\ UNCHANGED << runResult, joined >>

\* select! branch 1, pending: poll the next branch
LoopCommandPending ==
    /\ loopPc = "cmd"
    /\ ~registration_ready
    /\ command_sender_alive
    /\ loopPc' = "ws"
    /\ UNCHANGED << handlerVars, packetQ, commandQ, sent_commands, loopErr, message,
                    busVars, ref_count, listenerVars, wireVars >>

\* select! branch 1, ready with None: command_future.ok_or(StreamExhausted("command"))?
LoopCommandExhausted ==
    /\ loopPc = "cmd"
    /\ ~registration_ready
    /\ ~command_sender_alive
    /\ Exit(Err("StreamExhausted command"))
    /\ UNCHANGED << handlerVars, packetQ, commandQ, sent_commands, message, busVars,
                    ref_count, listenerVars, wireVars >>

\* select! branch 2, ready: self.stream.try_next() yields a message or the end
\* of the stream (the peer sends at most MaxEvents events in a run)
Receive(max_events) ==
    /\ loopPc = "ws"
    /\ \E m \in Inbound :
          /\ m.kind = "Event" => Len(published) < max_events
          /\ message' = m
    /\ loopPc' = "handle"
    /\ UNCHANGED << handlerVars, packetQ, commandQ, sent_commands, loopErr, busVars,
                    ref_count, listenerVars, wireVars >>

LoopReceive == Receive(MaxEvents)
LoopReceiveLive == Receive(MaxLiveEvents)

\* Mutant: the end of the stream is taken for a message.
end_of_stream_ignored(m) == FALSE

\* stream.try_next() yielded Ok(None): message?.ok_or(..) is the Err.
end_of_stream(m) == m.kind = "EndOfStream"

\* message?.ok_or(Error::StreamExhausted("websocket"))?, process_message,
\* self.handle_packet(packet).await?
LoopHandle ==
    /\ loopPc = "handle"
    /\ IF end_of_stream(message)
       THEN /\ Exit(Err("StreamExhausted websocket"))
            /\ UNCHANGED << sent_commands, rxSlot, busVars >>
       ELSE LET packet == process_message(message) IN
            CASE packet = DecodeError ->
                    /\ Exit(Err("JsonParseError"))
                    /\ UNCHANGED << sent_commands, rxSlot, busVars >>
              [] packet = NoMessage ->
                    /\ loopPc' = "cmd"
                    /\ UNCHANGED << sent_commands, rxSlot, busVars, loopErr >>
              [] OTHER -> handle_packet(packet)
    /\ message' = NoMessage
    /\ UNCHANGED << hpc, ops, cur, typed, result, permits, idUse, packetQ, commandQ,
                    serverSeen, ref_count, listenerVars, wireVars >>
    /\ UNCHANGED << runResult, joined >>

\* select! branch 2, pending: poll the next branch
LoopStreamPending ==
    /\ loopPc = "ws"
    /\ loopPc' = "out"
    /\ UNCHANGED << handlerVars, packetQ, commandQ, sent_commands, loopErr, message,
                    busVars, ref_count, listenerVars, wireVars >>

\* Mutant: the receiver yields the packet enqueued last.
poll_newest(q) == q[Len(q)]

\* self.packet_receiver.next() yields the packet that was enqueued first.
poll_next(q) == Head(q)

\* The serde error of a packet that has no encoding.
EncodeError == [purpose |-> "none", request_id |-> 0]

\* Mutant: no packet has an encoding.
serialize_nothing(packet) == EncodeError

\* Packet::serialize with serialize_packet!: the text's header carries the
\* messagePurpose of the variant and, for a CommandRequest, its requestId (the
\* other two get a fresh one, written 0); the other variants have no encoding.
serialize(packet) ==
    CASE packet.type = "Subscribe" -> [purpose |-> "subscribe", request_id |-> 0]
      [] packet.type = "Unsubscribe" -> [purpose |-> "unsubscribe", request_id |-> 0]
      [] packet.type = "CommandRequest" ->
            [purpose |-> "commandRequest", request_id |-> packet.request_id]
      [] OTHER -> EncodeError

\* select! branch 3, ready: self.stream.send(Message::Text(to_string(&packet)?))
LoopOutbound ==
    /\ loopPc = "out"
    /\ packetQ # << >>
    /\ LET text == serialize(poll_next(packetQ)) IN
       IF text = EncodeError
       THEN /\ Exit(Err("JsonParseError"))
            /\ UNCHANGED << wireReqs, wireSub, late >>
       ELSE /\ wireReqs' = IF text.purpose = "commandRequest"
                           THEN wireReqs \cup {text.request_id} ELSE wireReqs
            /\ wireSub' = CASE text.purpose = "subscribe" -> "Subscribe"
                            [] text.purpose = "unsubscribe" -> "Unsubscribe"
                            [] OTHER -> wireSub
            /\ late' = IF hpc = "closed" /\ stale = 0 THEN late + 1 ELSE late
            /\ loopPc' = "cmd"
            /\ UNCHANGED loopErr
    /\ stale' = IF stale > 0 THEN stale - 1 ELSE 0
    /\ packetQ' = Tail(packetQ)
    /\ UNCHANGED << handlerVars, commandQ, sent_commands, message, busVars,
                    ref_count, listenerVars >>

\* select! branch 3, pending: the task parks and polls from branch 1 when woken
LoopPacketPending ==
    /\ loopPc = "out"
    /\ packetQ = << >>
    /\ packet_sender_alive
    /\ ~abort_requested
    /\ loopPc' = "cmd"
    /\ UNCHANGED << handlerVars, packetQ, commandQ, sent_commands, loopErr, message,
                    busVars, ref_count, listenerVars, wireVars >>

\* select! branch 3, ready with None: packet.ok_or(StreamExhausted("packet"))?
LoopPacketExhausted ==
    /\ loopPc = "out"
    /\ packetQ = << >>
    /\ ~packet_sender_alive
    /\ Exit(Err("StreamExhausted packet"))
    /\ UNCHANGED << handlerVars, packetQ, commandQ, sent_commands, message, busVars,
                    ref_count, listenerVars, wireVars >>

\* The aborted task is cancelled: at once when it was parked (at the top of the
\* loop), else when its poll finds every branch pending.  The future is dropped
\* (EventLoop::drop runs) and the JoinHandle gets JoinError, not an Error.
LoopAbort ==
    /\ abort_requested
    /\ \/ loopPc = "cmd"
       \/ loopPc = "out" /\ packetQ = << >> /\ packet_sender_alive
    /\ Exit(NoError)
    /\ UNCHANGED << handlerVars, packetQ, commandQ, sent_commands, message, busVars,
                    ref_count, listenerVars, wireVars >>

\* After EventLoop::drop the fields are dropped: the queued messages and the
\* pending oneshot senders go, and so does the watch sender.
LoopDropFields ==
    /\ loopPc = "closing"
    /\ loopPc' = "dropped"
    /\ sent_commands' = << >>
    /\ commandQ' = << >>
    /\ packetQ' = << >>
    /\ UNCHANGED << handlerVars, loopErr, message, busVars, ref_count, listenerVars,
                    wireVars >>

\* The task's output is stored and the JoinHandle reports is_finished.
LoopComplete ==
    /\ loopPc = "dropped"
    /\ loopPc' = "finished"
    /\ UNCHANGED << handlerVars, packetQ, commandQ, sent_commands, loopErr, message,
                    busVars, ref_count, listenerVars, wireVars >>

\* ------------------------------------------------------------------ Server
\* Mutant: the check never fails.
assert_running_always == NoError

\* Server::assert_running: the Result it returns (NoError is Ok(())).
assert_running == IF is_finished THEN Err("LoopNotRunning") ELSE NoError

\* Mutant: the call goes on without taking a permit.
acquire_nothing(n) == n

\* Semaphore::acquire takes one permit.
acquire(n) == n - 1

\* Mutant: a dropped permit is not given back.
release_nothing(n) == n

\* Dropping the permit gives it back.
release(n) == n + 1

\* A Server method returns res to the handler.
Return(res) ==
    /\ hpc' = "idle"
    /\ result' = res
    /\ cur' = 0
    /\ typed' = FALSE
    /\ rxSlot' = Empty

\* send_raw_command (called directly, or by send_command with request.into()):
\* assert_running()?, then semaphore.acquire().await
CmdStart ==
    /\ hpc = "idle"
    /\ ops < MaxOps
    /\ ops' = ops + 1
    /\ \E id \in Ids, by_send_command \in BOOLEAN :
          IF assert_running # NoError
          THEN /\ Return(ErrResult(assert_running))
               /\ UNCHANGED << permits, idUse >>
          ELSE /\ permits > 0
               /\ permits' = acquire(permits)
               /\ hpc' = "cmd_send"
               /\ cur' = id
               /\ typed' = by_send_command
               /\ idUse' = [idUse EXCEPT ![id] = @ + 1]
               /\ result' = NoResult
               /\ UNCHANGED rxSlot
    /\ UNCHANGED << packetQ, commandQ, sent_commands, loopPc, loopErr, message, busVars,
                    serverSeen, ref_count, listenerVars, wireVars >>
    /\ UNCHANGED << runResult, joined >>

\* Mutant: a send never notices that the receiver was closed.
is_closed_never == FALSE

\* mpsc::Sender::send fails, also for a sender that waits for capacity, once
\* the receiver was closed.
is_closed == ReceiversClosed

\* self.packet_sender.send(Packet::CommandRequest(command)).await?
CmdSendPacket ==
    /\ hpc = "cmd_send"
    /\ IF is_closed
       THEN /\ Return(ErrResult(Err("PacketSendFailed")))
            /\ permits' = release(permits)
            /\ UNCHANGED packetQ
       ELSE /\ Len(packetQ) < ChannelSize
            /\ packetQ' = Append(packetQ, CommandRequest(cur))
            /\ hpc' = "cmd_reg"
            /\ UNCHANGED << cur, typed, result, permits, rxSlot >>
    /\ UNCHANGED << ops, idUse, commandQ, sent_commands, loopPc, loopErr, message, busVars,
                    serverSeen, ref_count, listenerVars, wireVars >>
    /\ UNCHANGED << runResult, joined >>

\* let (tx, rx) = oneshot::channel(); self.command_sender.send((uuid, tx)).await?
CmdSendRegistration ==
    /\ hpc = "cmd_reg"
    /\ IF is_closed
       THEN /\ Return(ErrResult(Err("CommandSendFailed")))
            /\ permits' = release(permits)
            /\ UNCHANGED commandQ
       ELSE /\ Len(commandQ) < ChannelSize
            /\ commandQ' = Append(commandQ, [id |-> cur, sink |-> ops])
            /\ hpc' = "cmd_await"
            /\ UNCHANGED << cur, typed, result, permits, rxSlot >>
    /\ UNCHANGED << ops, idUse, packetQ, sent_commands, loopPc, loopErr, message, busVars,
                    serverSeen, ref_count, listenerVars, wireVars >>
    /\ UNCHANGED << runResult, joined >>

\* The oneshot sender of op s still exists: its record is queued or pending.
SenderAlive(s) ==
    \/ \E k \in 1 .. Len(commandQ) : commandQ[k].sink = s
    \/ \E k \in 1 .. Len(sent_commands) : sent_commands[k].sink = s

\* Mutant: a closed oneshot channel is reported as the loop's own error.
RecvResultLoopError(slot) ==
    IF slot.full THEN OkResponse(slot) ELSE ErrResult(loopErr)

\* What rx.await resolves to, mapped through `?` (From<oneshot::error::RecvError>).
RecvResult(slot) ==
    IF slot.full THEN OkResponse(slot)
    ELSE ErrResult(Err("CommandResponseNeverBroadcasted"))

\* Mutant: send_command hands the response over whatever its status code.
send_command_any_status(res) == IF res.ok THEN OkResult(res.request_id) ELSE res

\* send_command: what it makes of the Result of send_raw_command.  `?` passes
\* an error on, status code 0 goes to response.try_into(), another status code
\* becomes MinecraftError.
send_command(res) ==
    IF ~res.ok THEN res
    ELSE IF res.status_code = 0 THEN OkResult(res.request_id)
    ELSE ErrResult(MinecraftError(res.status_code, res.status_message))

\* let result = rx.await; drop(permit); Ok(result?)
CmdRecv ==
    /\ hpc = "cmd_await"
    /\ rxSlot.full \/ ~SenderAlive(ops)
    /\ Return(IF typed THEN send_command(RecvResult(rxSlot)) ELSE RecvResult(rxSlot))
    /\ permits' = release(permits)
    /\ UNCHANGED << ops, idUse, packetQ, commandQ, sent_commands, loopPc, loopErr, message,
                    busVars, serverSeen, ref_count, listenerVars, wireVars >>
    /\ UNCHANGED << runResult, joined >>

\* The handler drops the future of the method it is suspended in (the permit
\* and the oneshot receiver it holds are dropped with it).
Cancel ==
    /\ hpc \in {"cmd_send", "cmd_reg", "cmd_await", "sub_send", "raw_wait"}
    /\ Return(NoResult)
    /\ permits' = IF hpc \in {"cmd_send", "cmd_reg", "cmd_await"}
                  THEN release(permits) ELSE permits
    /\ UNCHANGED << ops, idUse, packetQ, commandQ, sent_commands, loopPc, loopErr, message,
                    busVars, serverSeen, ref_count, listenerVars, wireVars >>
    /\ UNCHANGED << runResult, joined >>

\* The JoinHandle of the loop task is Ready: the task has completed.  Polling
\* it again after it handed out the output panics ("JoinHandle polled after
\* completion").
Ready == is_finished
Panics == is_finished /\ joined

\* Server::get_loop_result: the loop task's Err when the JoinHandle is ready
\* with Ok(result), None (NoError) when it is pending.
get_loop_result == IF Ready THEN loopErr ELSE NoError

\* What get_loop_result returned to the handler: an Option<Error>, not a Result.
LoopResult(e) == [set |-> TRUE, ok |-> TRUE, err |-> e, request_id |-> 0,
                  status_code |-> 0, status_message |-> ""]

\* The handler calls get_loop_result.
GetLoopResult ==
    /\ hpc = "idle"
    /\ ops < MaxOps
    /\ ops' = ops + 1
    /\ IF Panics
       THEN /\ hpc' = "panicked"
            /\ UNCHANGED << result, joined >>
       ELSE /\ result' = LoopResult(get_loop_result)
            /\ joined' = Ready
            /\ UNCHANGED hpc
    /\ UNCHANGED << cur, typed, permits, idUse, rxSlot, serverSeen, runResult,
                    packetQ, commandQ, sent_commands, loopPc, loopErr, message,
                    busVars, ref_count, listenerVars, wireVars >>

\* The handler's Result: Ok(()), or (by `?`) the Err of its last operation.
HandlerResults ==
    {NoError} \cup (IF result.set /\ ~result.ok THEN {result.err} ELSE {})

\* Server::run: match (handler_result, loop_result)
run_match(handler_result, loop_result) ==
    CASE handler_result = NoError /\ loop_result = NoError ->
            MultiResult("Ok", NoError, NoError)
      [] handler_result = NoError /\ loop_result # NoError ->
            MultiResult("LoopErrored", loop_result, NoError)
      [] handler_result # NoError /\ loop_result = NoError ->
            MultiResult("HandlerErrored", NoError, handler_result)
      [] OTHER ->
            MultiResult("BothErrored", loop_result, handler_result)

\* Server::run once the handler's future is done: get_loop_result(),
\* drop(server), and the match that builds the MultiResult.
HandlerFinish ==
    /\ hpc = "idle"
    /\ IF Panics
       THEN /\ hpc' = "panicked"
            /\ UNCHANGED runResult
       ELSE /\ hpc' = "done"
            /\ \E handler_result \in HandlerResults :
                  runResult' = run_match(handler_result, get_loop_result)
    /\ UNCHANGED << ops, cur, typed, result, permits, idUse, rxSlot, serverSeen, joined,
                    packetQ, commandQ, sent_commands, loopPc, loopErr, message,
                    busVars, ref_count, listenerVars, wireVars >>

\* Server::close(self): loop_handle.abort(), command_semaphore.close(),
\* subscribed_events.clear(); the Server is dropped at the end.
Close ==
    /\ hpc = "idle"
    /\ hpc' = "closed"
    /\ stale' = Len(packetQ)
    /\ UNCHANGED << ops, cur, typed, result, permits, idUse, rxSlot, serverSeen,
                    runResult, joined, packetQ, commandQ, sent_commands, loopPc, loopErr,
                    message, busVars, ref_count, listenerVars, wireReqs, wireSub,
                    late >>

\* The first unused listener handle.
FreeSlot == CHOOSE l \in Listeners :
                /\ lst[l] = "none"
                /\ \A m \in Listeners : lst[m] = "none" => l <= m

\* EventListener::new_unchecked(ref_count, packet_sender.clone(),
\*     WatchStream::from_changes(self.event_receiver.clone()))
NewListener(l) ==
    /\ lst' = [lst EXCEPT ![l] = "live"]
    /\ lseen' = [lseen EXCEPT ![l] = serverSeen]
    /\ lborn' = [lborn EXCEPT ![l] = event_version]
    /\ lgot' = [lgot EXCEPT ![l] = << >>]
    /\ lexh' = [lexh EXCEPT ![l] = FALSE]

\* AtomicU32::fetch_add / fetch_sub (a value below 0 stands for the u32 that
\* wrapped around to 2^32 - 1).
fetch_add(n) == n + 1
fetch_sub(n) == n - 1

\* Mutant: every subscribe call takes itself for the first subscriber.
first_subscriber_always(old) == TRUE

\* if ref_count.fetch_add(1, Ordering::SeqCst) == 0
first_subscriber(old) == old = 0

\* subscribe: assert_running()?, the entry of subscribed_events, fetch_add
SubStart ==
    /\ hpc = "idle"
    /\ ops < MaxOps
    /\ \E l \in Listeners : lst[l] = "none"
    /\ ops' = ops + 1
    /\ IF assert_running # NoError
       THEN /\ Return(ErrResult(assert_running))
            /\ UNCHANGED << ref_count, listenerVars >>
       ELSE /\ ref_count' = fetch_add(ref_count)
            /\ IF first_subscriber(ref_count)
               THEN /\ hpc' = "sub_send"
                    /\ result' = NoResult
                    /\ UNCHANGED << cur, typed, rxSlot, listenerVars >>
               ELSE /\ NewListener(FreeSlot)
                    /\ Return(OkResult(0))
    /\ UNCHANGED << permits, idUse, packetQ, commandQ, sent_commands, loopPc, loopErr, message,
                    busVars, serverSeen, wireVars >>
    /\ UNCHANGED << runResult, joined >>

\* self.packet_sender.send(Packet::Subscribe(..)).await?, then the listener
SubSend ==
    /\ hpc = "sub_send"
    /\ IF is_closed
       THEN /\ Return(ErrResult(Err("PacketSendFailed")))
            /\ UNCHANGED << packetQ, listenerVars >>
       ELSE /\ Len(packetQ) < ChannelSize
            /\ packetQ' = Append(packetQ, SubscribeP)
            /\ NewListener(FreeSlot)
            /\ Return(OkResult(0))
    /\ UNCHANGED << ops, permits, idUse, commandQ, sent_commands, loopPc, loopErr, message,
                    busVars, serverSeen, ref_count, wireVars >>
    /\ UNCHANGED << runResult, joined >>

\* Mutant: the value the channel holds is not marked as seen.
borrow_and_update_nothing(seen) == seen

\* watch::Receiver::borrow_and_update: the version the receiver has seen
\* becomes the channel's.
borrow_and_update(seen) == event_version

\* recv_raw_event: assert_running()?, self.event_receiver.borrow_and_update()
RawStart ==
    /\ hpc = "idle"
    /\ ops < MaxOps
    /\ ops' = ops + 1
    /\ IF assert_running # NoError
       THEN /\ Return(ErrResult(assert_running))
            /\ UNCHANGED serverSeen
       ELSE /\ serverSeen' = borrow_and_update(serverSeen)
            /\ hpc' = "raw_wait"
            /\ result' = NoResult
            /\ UNCHANGED << cur, typed, rxSlot >>
    /\ UNCHANGED << permits, idUse, packetQ, commandQ, sent_commands, loopPc, loopErr, message,
                    busVars, ref_count, listenerVars, wireVars >>
    /\ UNCHANGED << runResult, joined >>

\* self.event_receiver.changed().await?; Ok(borrow_and_update().clone())
RawWake ==
    /\ hpc = "raw_wait"
    /\ IF event_version # serverSeen
       THEN /\ serverSeen' = borrow_and_update(serverSeen)
            /\ Return(OkResult(event_value.serial))
       ELSE /\ FieldsDropped
            /\ Return(ErrResult(Err("EventReceiveFailed")))
            /\ UNCHANGED serverSeen
    /\ UNCHANGED << ops, permits, idUse, packetQ, commandQ, sent_commands, loopPc,
                    loopErr, message, busVars, ref_count, listenerVars, wireVars >>
    /\ UNCHANGED << runResult, joined >>

\* ----------------------------------------------------------- EventListener
\* Mutant: the receiver hands out the event that follows the one it saw last.
ReceivedNext(seen) == [event_name |-> published[seen + 1], serial |-> seen + 1]

\* WatchStream::poll_next after changed(): (*rx.borrow_and_update()).clone(),
\* the value the channel holds now, whatever version the receiver saw last.
Received(seen) == event_value

\* Mutant: recv returns whatever event it sees.
matches_any_type(event) == TRUE

\* if event.event_name == T::get_type()  (the listeners are EventListener<PlayerMessage>)
matches_type(event) == event.event_name = "PlayerMessage"

\* recv: one turn of `while let Some(event) = self.event_receiver.next().await`
\* that sees a new version; the event is returned when its name is T's.
ListenerRecv(l) ==
    /\ lst[l] = "live"
    /\ event_version # lseen[l]
    /\ lseen' = [lseen EXCEPT ![l] = event_version]
    /\ LET event == Received(lseen[l]) IN
       lgot' = IF matches_type(event)
               THEN [lgot EXCEPT ![l] = Append(@, event.serial)]
               ELSE lgot
    /\ lexh' = [lexh EXCEPT ![l] = FALSE]
    /\ UNCHANGED << handlerVars, packetQ, commandQ, sent_commands, loopPc, loopErr, message,
                    busVars, ref_count, lst, lborn, wireVars >>

\* Mutant: the stream ends as soon as the sender is gone.
stream_ended_early(seen) == FieldsDropped

\* watch::Receiver::changed() fails: nothing new to see and the sender is gone.
stream_ended(seen) == event_version = seen /\ FieldsDropped

\* Mutant: the packet is enqueued whatever the state of the channel.
try_send_unchecked(q, packet) == Append(q, packet)

\* recv when the watch stream has ended: the while loop is left and recv
\* returns Err(Error::StreamExhausted("event")).
ListenerRecvClosed(l) ==
    /\ lst[l] = "live"
    /\ stream_ended(lseen[l])
    /\ lexh' = [lexh EXCEPT ![l] = TRUE]
    /\ UNCHANGED << handlerVars, packetQ, commandQ, sent_commands, loopPc, loopErr,
                    message, busVars, ref_count, lst, lseen, lgot, lborn, wireVars >>

\* The handle is gone.
Forget(l) ==
    /\ lst' = [lst EXCEPT ![l] = "gone"]
    /\ lseen' = [lseen EXCEPT ![l] = 0]
    /\ lborn' = [lborn EXCEPT ![l] = 0]
    /\ lgot' = [lgot EXCEPT ![l] = << >>]
    /\ lexh' = [lexh EXCEPT ![l] = FALSE]

\* if val == 1
last_listener(val) == val = 1

\* drop: let val = self.ref_count.fetch_sub(1, SeqCst)
ListenerDrop(l) ==
    /\ lst[l] = "live"
    /\ ref_count' = fetch_sub(ref_count)
    /\ IF last_listener(ref_count)
       THEN /\ lst' = [lst EXCEPT ![l] = "unsub"]
            /\ UNCHANGED << lseen, lgot, lborn, lexh >>
       ELSE Forget(l)
    /\ UNCHANGED << handlerVars, packetQ, commandQ, sent_commands, loopPc, loopErr, message,
                    busVars, wireVars >>

\* mpsc::Sender::try_send: fails when the channel is closed or full.
try_send(q, packet) ==
    IF ReceiversClosed \/ Len(q) >= ChannelSize THEN q ELSE Append(q, packet)

\* drop: if val == 1 { self.packet_sender.try_send(Packet::Unsubscribe(..)).ok(); }
ListenerUnsubscribe(l) ==
    /\ lst[l] = "unsub"
    /\ packetQ' = try_send(packetQ, UnsubscribeP)
    /\ Forget(l)
    /\ UNCHANGED << handlerVars, commandQ, sent_commands, loopPc, loopErr, message, busVars,
                    ref_count, wireVars >>

\* -------------------------------------------------------------------- Next
Next ==
    \/ LoopRegister
    \/ LoopCommandPending
    \/ LoopCommandExhausted
    \/ LoopPacketExhausted
    \/ LoopAbort
    \/ HandlerFinish
    \/ GetLoopResult
    \/ Close
    \/ \E l \in Listeners : ListenerRecvClosed(l)
    \/ LoopReceive
    \/ LoopHandle
    \/ LoopStreamPending
    \/ LoopOutbound
    \/ LoopPacketPending
    \/ LoopDropFields
    \/ LoopComplete
    \/ CmdStart
    \/ CmdSendPacket
    \/ CmdSendRegistration
    \/ CmdRecv
    \/ Cancel
    \/ SubStart
    \/ SubSend
    \/ RawStart
    \/ RawWake
    \/ \E l \in Listeners : ListenerRecv(l)
    \/ \E l \in Listeners : ListenerDrop(l)
    \/ \E l \in Listeners : ListenerUnsubscribe(l)

Spec == Init /\ [][Next]_vars

\* The steps of the EventLoop task, and of a listener's recv call, in the runs
\* checked for liveness.
LoopNext ==
    \/ LoopRegister
    \/ LoopCommandPending
    \/ LoopCommandExhausted
    \/ LoopReceiveLive
    \/ LoopHandle
    \/ LoopStreamPending
    \/ LoopOutbound
    \/ LoopPacketPending
    \/ LoopPacketExhausted
    \/ LoopAbort
    \/ LoopDropFields
    \/ LoopComplete
RecvNext(l) == ListenerRecv(l) \/ ListenerRecvClosed(l)

\* Next with the peer publishing at most MaxLiveEvents events.
LiveNext ==
    \/ LoopRegister
    \/ LoopCommandPending
    \/ LoopCommandExhausted
    \/ LoopReceiveLive
    \/ LoopHandle
    \/ LoopStreamPending
    \/ LoopOutbound
    \/ LoopPacketPending
    \/ LoopPacketExhausted
    \/ LoopAbort
    \/ LoopDropFields
    \/ LoopComplete
    \/ CmdStart
    \/ CmdSendPacket
    \/ CmdSendRegistration
    \/ CmdRecv
    \/ Cancel
    \/ SubStart
    \/ SubSend
    \/ RawStart
    \/ RawWake
    \/ HandlerFinish
    \/ GetLoopResult
    \/ Close
    \/ \E l \in Listeners : ListenerRecv(l)
    \/ \E l \in Listeners : ListenerRecvClosed(l)
    \/ \E l \in Listeners : ListenerDrop(l)
    \/ \E l \in Listeners : ListenerUnsubscribe(l)

\* The runtime keeps polling the loop task while it can make a step, and a
\* recv call that can return does return.
FairSpec ==
    /\ Init
    /\ [][LiveNext]_vars
    /\ WF_vars(LoopNext)
    /\ \A l \in Listeners : WF_vars(RecvNext(l))

\* The steps by which a suspended send_raw_command call goes on.
CallNext == CmdSendPacket \/ CmdSendRegistration \/ CmdRecv

\* FairSpec, and a suspended call that can go on does go on (unless the
\* handler abandons it).
CallFairSpec ==
    /\ Init
    /\ [][LiveNext]_vars
    /\ WF_vars(LoopNext)
    /\ WF_vars(CallNext)

\* ------------------------------------------------------------- vocabulary
\* This step is the loop handling the message it received.
Handles == loopPc = "handle" /\ loopPc' # "handle"

\* The pending records that carry request id `id`, and the first of them.
Matches(id) == {k \in 1 .. Len(sent_commands) : sent_commands[k].id = id}
FirstMatch(id) == CHOOSE k \in Matches(id) : \A j \in Matches(id) : k <= j

\* sent_commands without its k-th record (the last record takes its place).
Without(k) ==
    [j \in 1 .. (Len(sent_commands) - 1) |->
        IF j = k THEN sent_commands[Len(sent_commands)] ELSE sent_commands[j]]

\* The handler's command call is suspended on rx.await with its record pending.
Registered ==
    /\ hpc = "cmd_await"
    /\ \E k \in Matches(cur) : sent_commands[k].sink = ops

\* The pending records carry pairwise distinct request ids.
DistinctIds(cmds) ==
    \A j, k \in 1 .. Len(cmds) : j # k => cmds[j].id # cmds[k].id

\* This step is a Server method returning a value (not an abandoned call).
Returns == hpc' = "idle" /\ result'.set /\ (hpc # "idle" \/ ops' # ops)

\* This step is the handler calling get_loop_result: a Server operation that
\* returns at once with a value, or panics.
CallsGetLoopResult ==
    /\ hpc = "idle"
    /\ ops' # ops
    /\ lst' = lst
    /\ \/ hpc' = "panicked"
       \/ hpc' = "idle" /\ result'.set /\ result'.ok

\* ----------------------------------------------------------------- C1
\* C1: with pairwise distinct pending request ids, a CommandResponse the loop
\* handles is put into the oneshot channel of the call that carries the same
\* request id; and whatever is put into a oneshot channel carries the request id
\* of the call that waits on it, whose record is the one removed.
C1_ResponseReachesItsCaller ==
    [][ /\ (Handles /\ message.kind = "CommandResponse" /\ Registered
              /\ message.request_id = cur /\ DistinctIds(sent_commands))
           => rxSlot' = Full(message)
        /\ (rxSlot' # rxSlot /\ rxSlot'.full)
           => /\ Handles /\ message.kind = "CommandResponse" /\ Registered
              /\ rxSlot'.request_id = cur
              /\ message.request_id = cur
              /\ \E k \in Matches(cur) :
                    /\ sent_commands[k].sink = ops
                    /\ sent_commands' = Without(k)
      ]_vars

\* A response reached its caller while another command (abandoned, with a
\* different request id) is still pending.
C1_Witness ==
    /\ rxSlot.full
    /\ hpc = "cmd_await"
    /\ Len(sent_commands) = 1
    /\ sent_commands[1].id # cur

\* ----------------------------------------------------------------- C2
\* C2: the loop never handles the response to an issued command (request
\* written to the transport, request id used by this call only, call still in
\* progress) while the call's record is not yet in the pending table.
C2_RecordBeforeResponse ==
    [][ (Handles /\ message.kind = "CommandResponse"
           /\ message.request_id = cur /\ cur \in wireReqs /\ idUse[cur] = 1
           /\ hpc \in {"cmd_reg", "cmd_await"} /\ ~rxSlot.full)
        => Matches(cur) # {}
      ]_vars

\* ----------------------------------------------------------------- C3
\* The loop handles a response whose (first) matching record belongs to a call
\* that is no longer waiting for it.
HandlesAbandoned ==
    /\ Handles
    /\ message.kind = "CommandResponse"
    /\ Matches(message.request_id) # {}
    /\ ~(/\ sent_commands[FirstMatch(message.request_id)].sink = ops
         /\ hpc = "cmd_await")

Live == {l \in Listeners : lst[l] = "live"}
SubscribeCall == hpc = "idle" /\ ops' # ops /\ ref_count' # ref_count
SubscribeSent == hpc = "sub_send" /\ Returns /\ result'.ok
DropStarts(l) == lst[l] = "live" /\ lst'[l] # "live"
DropEnds(l) == lst[l] = "unsub" /\ lst'[l] = "gone"

\* What C4 says of every step but the last: a subscribe call adds 1 to the
\* count; the one that finds 0 enqueues exactly one Subscribe before it returns
\* its listener, one that finds more returns its listener and enqueues nothing;
\* a drop takes 1 off the count and enqueues nothing unless it found 1.
C4_CountSteps ==
    /\ SubscribeCall =>
          /\ ref_count' = ref_count + 1
          /\ packetQ' = packetQ
          /\ IF ref_count = 0
             THEN hpc' = "sub_send" /\ Live' = Live
             ELSE Returns /\ result'.ok /\ Cardinality(Live') = Cardinality(Live) + 1
    /\ SubscribeSent =>
          /\ ref_count' = ref_count
          /\ packetQ' = Append(packetQ, SubscribeP)
          /\ Cardinality(Live') = Cardinality(Live) + 1
    /\ \A l \in Listeners :
          DropStarts(l) =>
             /\ ref_count' = ref_count - 1
             /\ packetQ' = packetQ
             /\ lst'[l] = IF ref_count = 1 THEN "unsub" ELSE "gone"
    /\ packetQ' # packetQ /\ Len(packetQ') > Len(packetQ)
          /\ packetQ'[Len(packetQ')].type \in {"Subscribe", "Unsubscribe"}
       => SubscribeSent \/ \E l \in Listeners : DropEnds(l)

\* C4 as stated: the drop that brings the count to 0 enqueues exactly one
\* Unsubscribe.
C4_LastDropUnsubscribes ==
    [][ /\ C4_CountSteps
        /\ \A l \in Listeners :
              DropEnds(l) => packetQ' = Append(packetQ, UnsubscribeP)
      ]_vars

\* C4 amended: the drop that brings the count to 0 enqueues exactly one
\* Unsubscribe when the outbound channel is open and has room, and nothing
\* otherwise.
C4_LastDropTriesToUnsubscribe ==
    [][ /\ C4_CountSteps
        /\ \A l \in Listeners :
              DropEnds(l) =>
                 packetQ' = IF ReceiversClosed \/ Len(packetQ) >= ChannelSize
                            THEN packetQ
                            ELSE Append(packetQ, UnsubscribeP)
      ]_vars

\* Two listeners were created and dropped: the count is back at 0 and the
\* outbound queue holds one Subscribe and one Unsubscribe.
C4_Witness ==
    /\ \A l \in Listeners : lst[l] = "gone"
    /\ ref_count = 0
    /\ packetQ = << SubscribeP, UnsubscribeP >>

\* ----------------------------------------------------------------- C5
\* C5: when no subscribe or drop is under way, the count is that of the live
\* listeners and the outbound queue is drained, the last Subscribe/Unsubscribe
\* written to the transport is a Subscribe exactly when the count is above 0;
\* the count is never below 0.
C5_WireMatchesCount ==
    /\ ref_count >= 0
    /\ (/\ loopErr = NoError
        /\ packetQ = << >>
        /\ hpc # "sub_send"
        /\ \A l \in Listeners : lst[l] # "unsub"
        /\ ref_count = Cardinality(Live))
       => (wireSub = "Subscribe" <=> ref_count > 0)

\* ----------------------------------------------------------------- C6
\* C6: an event recv returns is the one published last (the value the bus
\* holds), so of two events published while the listener did not poll only the
\* second is returned; what a listener returns never goes back to an older event.
C6_NoBacklog ==
    [][ \A l \in Listeners :
           lgot'[l] # lgot[l] /\ lst'[l] = "live" =>
              /\ lgot'[l] = Append(lgot[l], Len(published))
              /\ published[Len(published)] = "PlayerMessage"
              /\ \A k \in 1 .. Len(lgot[l]) : lgot[l][k] < Len(published)
      ]_vars

\* A listener that existed before two PlayerMessage events were published and
\* did not poll in between got the second one from its first recv.
C6_Witness ==
    \E l \in Listeners :
        /\ lborn[l] = 0
        /\ lgot[l] = << 2 >>
        /\ published = << "PlayerMessage", "PlayerMessage" >>

\* ----------------------------------------------------------------- C7
\* C7: at most Permits commands hold a permit; a call has its request packet
\* enqueued only while it holds one, so the commands issued and not yet
\* completed or cancelled never number more than Permits.
Holding == IF hpc \in {"cmd_send", "cmd_reg", "cmd_await"} THEN 1 ELSE 0
C9_ErrorPacketStopsLoop ==
    [][ /\ (Handles /\ message.kind = "Error")
           => /\ loopPc' = "closing"
              /\ loopErr' = MinecraftError(message.status_code, message.status_message)
              /\ rxSlot' = rxSlot
              /\ sent_commands' = sent_commands
        /\ ReceiversClosed => (rxSlot'.full => rxSlot.full)
      ]_vars

\* The loop ended on an Error packet while a command was pending.
C9_Witness ==
    /\ loopPc = "closing"
    /\ loopErr = MinecraftError(2, "b")
    /\ Len(sent_commands) >= 1
    /\ hpc = "cmd_await"

\* ---------------------------------------------------------------- C10
\* A send_raw_command call whose request is enqueued and whose response was not
\* delivered returns while the loop has ended.
OutstandingFails ==
    /\ hpc \in {"cmd_reg", "cmd_await"}
    /\ ReceiversClosed
    /\ ~rxSlot.full
    /\ Returns

\* C10 as stated: that call fails with the error that ended the loop.
C10_CallFailsWithLoopError ==
    [][ OutstandingFails => result' = ErrResult(loopErr) ]_vars

\* C10 amended: that call fails with CommandSendFailed when its registration
\* was not enqueued yet and with CommandResponseNeverBroadcasted when it was,
\* never with the error that ended the loop.
C10_CallFailsWithChannelError ==
    [][ OutstandingFails =>
           /\ result' = ErrResult(Err(IF hpc = "cmd_reg" THEN "CommandSendFailed"
                                      ELSE "CommandResponseNeverBroadcasted"))
           /\ result'.err # loopErr
      ]_vars

\* A call suspended on its response failed after the loop had ended.
C10_Witness ==
    /\ result = ErrResult(Err("CommandResponseNeverBroadcasted"))
    /\ loopErr # NoError
    /\ FieldsDropped

\* ---------------------------------------------------------------- C17
\* The order in which one iteration polls its sources: a registration that is
\* ready when the iteration starts is the source taken; the inbound branch is
\* polled only after the registration branch was found empty, the outbound
\* branch only after the inbound one; a message is taken only at the inbound
\* branch and a packet is written only at the outbound branch; one step takes
\* from one source only.
C17_PollOrder ==
    /\ (loopPc = "cmd" /\ commandQ # << >> /\ loopPc' # loopPc) => hpc = "closed"
    /\ (loopPc = "cmd" /\ commandQ # << >> /\ sent_commands' # sent_commands)
          => /\ sent_commands' = Append(sent_commands, Head(commandQ))
             /\ commandQ' = Tail(commandQ)
    /\ (loopPc' = "ws" /\ loopPc # "ws") => (loopPc = "cmd" /\ commandQ = << >>)
    /\ (loopPc' = "out" /\ loopPc # "out") => loopPc = "ws"
    /\ (loopPc' = "handle" /\ loopPc # "handle") => (loopPc = "ws" /\ message' # NoMessage)
    /\ Len(sent_commands') > Len(sent_commands) => loopPc = "cmd"
    /\ <<wireReqs, wireSub>>' # <<wireReqs, wireSub>>
          => (loopPc = "out" /\ packetQ' = Tail(packetQ))
    /\ ~(/\ Len(sent_commands') > Len(sent_commands)
         /\ <<wireReqs, wireSub>>' # <<wireReqs, wireSub>>)

\* C17 as stated: the sources are taken in the fixed order, and no inbound
\* message is handled while a registration waits in the registration queue.
C17_NoHandlingWhileRegistrationWaits ==
    [][ C17_PollOrder /\ (Handles => commandQ = << >>) ]_vars

\* C17 amended: the sources are polled one after the other in the fixed order
\* and one iteration takes one source; an inbound message is taken only in an
\* iteration that found the registration queue empty when it polled it.
C17_PolledInFixedOrder == [][ C17_PollOrder ]_vars

\* A registration arrived after the registration branch was polled: it waits
\* while the iteration handles the inbound message it took.
C17_Witness == loopPc = "handle" /\ commandQ # << >> /\ message.kind = "Event"

\* ---------------------------------------------------------------- C18
\* C18: the pending table never holds two records with the same request id; a
\* record is added only by a registration, and while the loop runs a record
\* is removed only by handling a CommandResponse with its request id.
C18_OneRecordPerId ==
    /\ [](DistinctIds(sent_commands))
    /\ [][ /\ Len(sent_commands') > Len(sent_commands)
               => (loopPc = "cmd" /\ sent_commands' = Append(sent_commands, Head(commandQ)))
           /\ (Len(sent_commands') < Len(sent_commands) /\ loopPc # "closing")
               => /\ Handles /\ message.kind = "CommandResponse"
                  /\ \E k \in Matches(message.request_id) : sent_commands' = Without(k)
         ]_vars

\* ---------------------------------------------------------------- C19
\* C19: a send_raw_command call takes one permit when it starts and gives it
\* back when it returns, fails or is abandoned at any of its await points; no
\* other step touches the permits, so whenever no call is in progress all
\* Permits permits are available.
C19_NoPermitLeak ==
    [][ /\ (Holding = 0 /\ Holding' = 1) => permits' = permits - 1
        /\ (Holding = 1 /\ Holding' = 0) => permits' = permits + 1
        /\ Holding' = Holding => permits' = permits
        /\ hpc' = "idle" => permits' = Permits
      ]_vars

\* A call was abandoned while it waited for its response (its record is still
\* pending) and its permit is back.
C19_Witness ==
    /\ hpc = "idle"
    /\ ~result.set
    /\ permits = Permits
    /\ \E k \in 1 .. Len(sent_commands) : sent_commands[k].sink = ops

\* ---------------------------------------------------------------- C11
\* C11: a CommandResponse with a nonzero status code whose request id is that
\* of the waiting call (its record the first with that id) is put into that
\* call's oneshot channel and nowhere else: the loop goes on without a terminal
\* error, the other pending records and the event bus are left alone; the
\* send_command call that receives it returns MinecraftError with the status
\* code and the status message of the response.
C11_NonzeroStatusIsPerCall ==
    [][ /\ (/\ Handles /\ message.kind = "CommandResponse" /\ message.status_code # 0
             /\ Registered /\ message.request_id = cur
             /\ sent_commands[FirstMatch(cur)].sink = ops)
           => /\ rxSlot' = Full(message)
              /\ sent_commands' = Without(FirstMatch(cur))
              /\ loopPc' = "cmd"
              /\ loopErr' = NoError
              /\ UNCHANGED << busVars, commandQ, packetQ, hpc, result >>
        /\ (hpc = "cmd_await" /\ typed /\ Returns /\ rxSlot.full /\ rxSlot.status_code # 0)
           => /\ result' = ErrResult(MinecraftError(rxSlot.status_code, rxSlot.status_message))
              /\ UNCHANGED << loopPc, loopErr, sent_commands, busVars >>
      ]_vars

\* A send_command call returned the remote error of its response while the
\* loop runs on and the record of another command is still pending.
C11_Witness ==
    /\ result = ErrResult(MinecraftError(3, "c"))
    /\ hpc = "idle"
    /\ loopErr = NoError
    /\ Len(sent_commands) = 1

\* ---------------------------------------------------------------- C16
\* C16: for the text message the loop has in hand, decoding it as the packet
\* type of a purpose other than the one its header declares is a decode error;
\* decoding it as the Packet union is a decode error unless its purpose is
\* commandResponse, error or event, and a packet that does come out has the
\* message's own purpose.
C16_WrongPurposeFailsToDecode ==
    (loopPc = "handle" /\ message.kind \notin {"Binary", "EndOfStream"}) =>
        /\ \A purpose \in Deserializable :
              message.kind # purpose => deserialize_map(purpose, message) = DecodeError
        /\ message.kind \notin {"CommandResponse", "Error", "Event"}
              => visit_map(message) = DecodeError
        /\ visit_map(message) # DecodeError => visit_map(message).kind = message.kind

\* The loop has a message in hand whose purpose is subscribe.
C16_Witness == loopPc = "handle" /\ message.kind = "Subscribe"

\* ---------------------------------------------------------------- C20
\* C20: handling an inbound text message whose purpose is none of event, error
\* and commandResponse ends the loop with UnexpectedPacket.
C20_OtherPurposeIsUnexpectedPacket ==
    [][ (Handles /\ message.kind \in OtherPurposes)
        => (loopPc' = "closing" /\ loopErr' = UnexpectedPacket(message))
      ]_vars

\* ---------------------------------------------------------------- C12
\* This step is Server::run returning.
RunReturns == hpc = "idle" /\ hpc' = "done"

\* C12: run returns Ok exactly when the handler succeeded and the loop has not
\* failed when the handler finishes, LoopErrored with the loop's error when only
\* the loop failed, HandlerErrored with the handler's error when only the
\* handler failed, and BothErrored with both errors when both failed.
C12_RunReportsEveryFailure ==
    [][ RunReturns =>
          \E handler_result \in HandlerResults :
             /\ runResult'.handler_error = handler_result
             /\ runResult'.loop_error = loopErr
             /\ runResult'.kind =
                   IF handler_result = NoError
                   THEN (IF loopErr = NoError THEN "Ok" ELSE "LoopErrored")
                   ELSE (IF loopErr = NoError THEN "HandlerErrored" ELSE "BothErrored")
      ]_vars

\* ---------------------------------------------------------------- C13
\* The errors that say a source of the loop is exhausted.
Exhausted ==
    { Err("StreamExhausted command"), Err("StreamExhausted packet"),
      Err("StreamExhausted websocket") }

\* C13 as stated: once the Server is dropped without close() while the loop
\* runs, the loop task eventually finishes with a StreamExhausted error.
C13_DropEndsLoopExhausted ==
    (hpc = "done" /\ loopErr = NoError) ~> (is_finished /\ loopErr \in Exhausted)

\* C13 amended: once the Server is dropped without close() the loop task
\* eventually finishes, listeners alive or not; the first time it polls the
\* empty registration queue it ends with StreamExhausted("command") (what it
\* was handling when the Server went can end it before with another error).
C13_DropEndsLoop ==
    /\ (hpc = "done") ~> is_finished
    /\ [][ (hpc = "done" /\ loopPc = "cmd" /\ commandQ = << >> /\ loopPc' # loopPc)
            => (loopPc' = "closing" /\ loopErr' = Err("StreamExhausted command"))
          ]_vars

\* The Server was dropped and the loop finished with StreamExhausted("command")
\* while a listener is alive.
C13_Witness ==
    /\ hpc = "done"
    /\ is_finished
    /\ loopErr = Err("StreamExhausted command")
    /\ \E l \in Listeners : lst[l] = "live"

\* ---------------------------------------------------------------- C14
\* C14: once the loop has dropped the bus writer, a listener's recv returns at
\* most one event it had not seen (the last one published), every recv after
\* that fails with StreamExhausted, and a recv call that is under way does
\* eventually return.
C14_RecvEndsWhenBusClosed ==
    /\ \A l \in Listeners :
          (FieldsDropped /\ lst[l] = "live") ~> (lexh[l] \/ lst[l] # "live")
    /\ [][ FieldsDropped =>
              /\ event_version' = event_version
              /\ \A l \in Listeners :
                    /\ (lgot'[l] # lgot[l] /\ lst'[l] = "live")
                          => (lseen[l] # event_version /\ lseen'[l] = event_version)
                    /\ (lexh'[l] /\ ~lexh[l]) => lseen[l] = event_version
                    /\ (lexh[l] /\ lst'[l] = "live") => (lexh'[l] /\ lgot'[l] = lgot[l])
          ]_vars

\* A listener got the last event after the bus writer was dropped, and its
\* next recv failed with StreamExhausted.
C14_Witness ==
    \E l \in Listeners :
        /\ lst[l] = "live"
        /\ lexh[l]
        /\ Len(lgot[l]) = 1
        /\ lborn[l] < event_version

\* ---------------------------------------------------------------- C15
\* This step is Server::close.
Closes == hpc = "idle" /\ hpc' = "closed"

\* C15 as stated: close enqueues and writes nothing, whatever the ref count,
\* and no packet enqueued after close is ever written to the transport.
C15_NoUnsubscribeAfterClose ==
    [][ /\ Closes => (packetQ' = packetQ /\ wireSub' = wireSub /\ wireReqs' = wireReqs)
        /\ late' = late
      ]_vars

\* C15 amended: close enqueues and writes nothing and leaves the ref count
\* alone; a packet enqueued after close (an Unsubscribe of a listener dropped
\* after it) is written only by a loop task that is not cancelled yet; once it
\* is cancelled nothing more is enqueued or written.
C15_NoUnsubscribeOnceCancelled ==
    [][ /\ Closes => /\ packetQ' = packetQ /\ wireSub' = wireSub /\ wireReqs' = wireReqs
                     /\ ref_count' = ref_count
        /\ late' # late => /\ ~ReceiversClosed
                            /\ loopPc = "out"
                            /\ Head(packetQ) = UnsubscribeP
                            /\ wireSub' = "Unsubscribe"
        /\ (abort_requested /\ ReceiversClosed)
              => (wireSub' = wireSub /\ wireReqs' = wireReqs
                  /\ Len(packetQ') <= Len(packetQ))
      ]_vars

\* The Unsubscribe of a listener dropped after close was written.
C15_Witness == hpc = "closed" /\ late = 1 /\ wireSub = "Unsubscribe"

\* ---------------------------------------------------------------- C21
\* C21: once the loop task has completed with error E, every get_loop_result
\* call returns E - the first one and every later one - and none of them
\* panics or returns None.
C21_LoopErrorRetrievable ==
    [][ (CallsGetLoopResult /\ is_finished /\ loopErr # NoError)
        => (hpc' = "idle" /\ result'.err = loopErr)
      ]_vars

\* ---------------------------------------------------------------- C22
\* C22: when stream.try_next() yields the end of the stream, the loop ends with
\* StreamExhausted("websocket") and touches nothing in that step; from then on
\* it takes no registration into the pending table, receives and handles no
\* message, publishes no event, completes no call and writes no packet.
C22_EndOfStreamEndsLoop ==
    [][ /\ (Handles /\ message.kind = "EndOfStream")
           => /\ loopPc' = "closing"
              /\ loopErr' = Err("StreamExhausted websocket")
              /\ UNCHANGED << sent_commands, commandQ, packetQ, rxSlot, busVars,
                              wireReqs, wireSub >>
        /\ loopErr = Err("StreamExhausted websocket")
           => /\ loopErr' = loopErr
              /\ loopPc' \in {"closing", "dropped", "finished"}
              /\ sent_commands' \in {sent_commands, << >>}
              /\ message' = NoMessage
              /\ UNCHANGED << busVars, wireReqs, wireSub >>
              /\ rxSlot'.full => rxSlot.full
      ]_vars

\* The loop ended on the end of the stream with a pending record, a
\* registration and an outbound packet left unprocessed.
C22_Witness ==
    /\ loopErr = Err("StreamExhausted websocket")
    /\ sent_commands # << >>
    /\ commandQ # << >>
    /\ packetQ # << >>

\* ---------------------------------------------------------------- C23
\* C23: recv of an EventListener<PlayerMessage> returns PlayerMessage events
\* only: every event it has returned is one, and a recv that sees a bus value
\* of another type returns nothing, marks it seen and stays in its loop (the
\* handle stays live and recv has not returned an error).
C23_RecvReturnsItsTypeOnly ==
    [][ \A l \in Listeners :
          /\ \A i \in 1 .. Len(lgot'[l]) : published'[lgot'[l][i]] = "PlayerMessage"
          /\ (lst[l] = "live" /\ lseen'[l] # lseen[l] /\ lst'[l] = "live"
                /\ event_value.event_name # "PlayerMessage")
             => /\ lgot'[l] = lgot[l]
                /\ lseen'[l] = event_version
                /\ ~lexh'[l]
      ]_vars

\* A listener skipped an event of another type and then returned the
\* PlayerMessage event that followed it.
C23_Witness ==
    \E l \in Listeners :
        /\ lgot[l] = << 2 >>
        /\ lborn[l] = 0
        /\ published = << "Other", "PlayerMessage" >>

\* ---------------------------------------------------------------- C24
\* A watch receiver exists: the Server's, or the one of a listener handle.
SomeReceiver ==
    \/ hpc \notin {"done", "closed", "panicked"}
    \/ \E l \in Listeners : lst[l] \in {"live", "unsub"}

\* C24 as stated: handling an inbound Event always ends, in that step, with
\* the bus slot holding the event and a strictly greater version, whatever the
\* listeners have seen, and the loop goes on.
C24_EventAlwaysPublished ==
    [][ (Handles /\ message.kind = "Event")
        => /\ event_value'.event_name = message.event_name
           /\ event_version' > event_version
           /\ loopPc' = "cmd"
           /\ lseen' = lseen
      ]_vars

\* C24 amended: handling an inbound Event ends in that step and waits for no
\* reader.  While a receiver of the bus exists the slot then holds the event
\* and the version is one greater; when none exists (the Server and every
\* listener are gone) the bus is left as it was and the loop ends with
\* EventBroadcastFailed.
C24_EventPublishedWhileObserved ==
    [][ (Handles /\ message.kind = "Event")
        => /\ lseen' = lseen /\ serverSeen' = serverSeen
           /\ IF SomeReceiver
              THEN /\ event_value' = [event_name |-> message.event_name,
                                      serial |-> event_version + 1]
                   /\ event_version' = event_version + 1
                   /\ loopPc' = "cmd"
                   /\ loopErr' = loopErr
              ELSE /\ UNCHANGED << event_value, event_version >>
                   /\ loopPc' = "closing"
                   /\ loopErr' = Err("EventBroadcastFailed")
      ]_vars

\* A second event was published while a listener had not yet observed the
\* first one.
C24_Witness ==
    /\ event_version = 2
    /\ \E l \in Listeners : lst[l] = "live" /\ lseen[l] = 0 /\ lborn[l] = 0

\* ---------------------------------------------------------------- C25
\* C25: recv_raw_event marks the value the bus holds when the call starts as
\* seen, and the event it returns is the value the bus holds when it wakes up,
\* which was written after the call started; what was written before the call
\* started (between two calls, too) is not returned by it.
C25_RawEventIsNew ==
    [][ /\ (hpc = "idle" /\ hpc' = "raw_wait") => serverSeen' = event_version
        /\ hpc = "raw_wait" => serverSeen <= event_version
        /\ (hpc = "raw_wait" /\ Returns /\ result'.ok)
           => /\ result'.request_id = event_value.serial
              /\ result'.request_id = event_version
              /\ result'.request_id > serverSeen
              /\ serverSeen' = event_version
      ]_vars

\* The second recv_raw_event call started after event 1 had been written and
\* returned event 2.
C25_Witness ==
    /\ hpc = "idle" /\ ops = 2
    /\ result = OkResult(2)
    /\ serverSeen = 2
    /\ \A i \in Ids : idUse[i] = 0
    /\ \A l \in Listeners : lst[l] = "none"

\* ---------------------------------------------------------------- C26
\* C26: an event a listener's recv returns was written to the bus after the
\* listener was created.
C26_NothingFromBeforeCreation ==
    [][ \A l \in Listeners :
           (lgot'[l] # lgot[l] /\ lst[l] = "live" /\ lst'[l] = "live")
              => lgot'[l][Len(lgot'[l])] > lborn[l]
      ]_vars

\* ---------------------------------------------------------------- C27
\* C27: a subscribe call that fails on its enqueue, or is abandoned while it
\* waits for queue space, leaves the ref count as it was before the call; and
\* outside a subscribe call in progress the ref count is the number of live
\* listener handles.
C27_RefCountIsLiveHandles ==
    [][ /\ (hpc = "sub_send" /\ hpc' = "idle" /\ ~(result'.set /\ result'.ok))
           => ref_count' = ref_count - 1
        /\ hpc' # "sub_send"
           => ref_count' = Cardinality({l \in Listeners : lst'[l] = "live"})
      ]_vars

\* ---------------------------------------------------------------- C28
\* A send_raw_command call is in progress and has not been handed a response.
Outstanding == hpc \in {"cmd_send", "cmd_reg", "cmd_await"} /\ ~rxSlot.full

\* C28: once the loop has ended, no send_raw_command call stays suspended: the
\* call that was outstanding comes to its end, nothing is enqueued on the closed
\* channels, and what the call returns is an error.
C28_OutstandingCallsFail ==
    /\ (ReceiversClosed /\ Outstanding) ~> (hpc = "idle")
    /\ [][ /\ ReceiversClosed
              => /\ Len(packetQ') <= Len(packetQ)
                 /\ Len(commandQ') <= Len(commandQ)
           /\ (ReceiversClosed /\ Outstanding /\ Returns)
              => /\ ~result'.ok
                 /\ result'.err.kind \in {"PacketSendFailed", "CommandSendFailed",
                                          "CommandResponseNeverBroadcasted"}
                 /\ permits' = Permits
         ]_vars

\* A call suspended on its completion channel returned an error after the loop
\* had ended with a fatal error.
C28_Witness ==
    /\ result = ErrResult(Err("CommandResponseNeverBroadcasted"))
    /\ loopErr.kind = "MinecraftError"
    /\ hpc = "idle"

\* ---------------------------------------------------------------- C29
\* The outbound queue is a queue: a packet is enqueued at its end, the packet
\* written is its head, and the write shows on the transport.
C29_Fifo ==
    /\ \/ packetQ' = packetQ
       \/ packetQ # << >> /\ packetQ' = Tail(packetQ)
       \/ \E p \in {SubscribeP, UnsubscribeP} \cup {CommandRequest(i) : i \in Ids} :
             packetQ' = Append(packetQ, p)
       \/ packetQ' = << >> /\ loopPc = "closing"
    /\ (packetQ # << >> /\ packetQ' = Tail(packetQ) /\ loopPc # "closing")
       => /\ loopPc = "out"
          /\ Head(packetQ).type = "CommandRequest"
                => (Head(packetQ).request_id \in wireReqs' /\ wireSub' = wireSub)
          /\ Head(packetQ).type # "CommandRequest"
                => (wireSub' = Head(packetQ).type /\ wireReqs' = wireReqs)

\* C29 as stated: while the loop runs, a packet in the outbound queue is
\* eventually written (the queue gets shorter or the loop ends), also while
\* inbound messages keep arriving; packets are written in enqueue order.
C29_OutboundEventuallyWritten ==
    /\ \A n \in 1 .. ChannelSize :
          (Len(packetQ) = n /\ ~ReceiversClosed)
             ~> (Len(packetQ) < n \/ ReceiversClosed)
    /\ [][C29_Fifo]_vars

\* C29 amended: packets are written in enqueue order, and the head of the
\* queue is written in the iteration that polls the outbound branch, that is
\* one in which no registration and no inbound message was ready.
C29_OutboundWrittenWhenPolled ==
    /\ (loopPc = "out" /\ packetQ # << >>) ~> (loopPc = "cmd")
    /\ [][ /\ C29_Fifo
           /\ (loopPc = "out" /\ packetQ # << >> /\ loopPc' # "out")
              => (packetQ' = Tail(packetQ) /\ loopPc' = "cmd")
         ]_vars

\* Two packets were enqueued and the first of them has been written.
C29_Witness ==
    /\ wireSub = "Subscribe"
    /\ packetQ # << >>
    /\ Head(packetQ).type = "CommandRequest"
    /\ wireReqs = {}
    /\ loopPc = "cmd"

\* ---------------------------------------------------------------- C30
\* C30: the outbound queue only ever holds CommandRequest, Subscribe and
\* Unsubscribe packets, and the iteration that takes a packet from it writes
\* it and goes on: the loop never ends on the encoding of an outbound packet.
C30_OutboundAlwaysEncodes ==
    [][ /\ \A k \in 1 .. Len(packetQ') :
              packetQ'[k].type \in {"CommandRequest", "Subscribe", "Unsubscribe"}
        /\ (loopPc = "out" /\ packetQ # << >> /\ loopPc' # "out")
           => /\ loopPc' = "cmd"
              /\ loopErr' = loopErr
              /\ \/ << wireReqs, wireSub >>' # << wireReqs, wireSub >>
                 \/ Head(packetQ).request_id \in wireReqs
                 \/ Head(packetQ).type = wireSub
      ]_vars

\* Packets of the three kinds have been written and the loop is running.
C30_Witness ==
    /\ wireSub = "Unsubscribe"
    /\ wireReqs # {}
    /\ loopPc = "cmd"
    /\ loopErr = NoError

\* ---------------------------------------------------------------- C31
\* C31: handling an inbound message that is not a text message changes neither
\* the pending table, nor the bus slot and its version, nor the two queues, and
\* completes no call; the loop goes on to its next iteration without an error.
C31_NonTextIsIgnored ==
    [][ (Handles /\ message.kind = "Binary")
        => /\ UNCHANGED << sent_commands, event_value, event_version, published,
                           packetQ, commandQ, rxSlot, wireReqs, wireSub >>
           /\ loopPc' = "cmd"
           /\ loopErr' = loopErr
           /\ loopErr = NoError
      ]_vars

\* The loop is handling a message that is not text while a record is pending,
\* an event has been published and both queues hold something.
C31_Witness ==
    /\ loopPc = "handle"
    /\ message.kind = "Binary"
    /\ sent_commands # << >>
    /\ event_version > 0
    /\ packetQ # << >>
    /\ commandQ # << >>

====
